---- MODULE Spec2Model ----
(***************************************************************************)
(* Model of obsidian-blockier: the "Select block" command (select.ts),     *)
(* the block prefix override run on Space (replace.ts) and the prefix      *)
(* regular expressions both rest on (regex.ts).                            *)
(*                                                                         *)
(* A line of the document is a sequence of one-character strings, a        *)
(* document a sequence of lines.  Positions are the host editor's          *)
(* zero-based {line, ch} records.                                          *)
(***************************************************************************)
EXTENDS Integers, Sequences, FiniteSets, TLC

VARIABLES
    doc,         \* the document: a sequence of lines
    selections,  \* the editor's selections, as listSelections returns them
    settings,    \* the plugin settings read by the handlers
    host,        \* what the platform reports: the DOM selection's anchor
                 \* node and whether an editor is active
    typed,       \* the number of keys typed so far
    log          \* the calls made and the value returned by the last
                 \* handler or function invocation

vars == <<doc, selections, settings, host, typed, log>>

(***************************************************************************)
(* Bounds of the explored inputs.                                          *)
(***************************************************************************)
MaxIndent == 2
MaxDigits == 2
MaxHashes == 7
MaxLines == 2
MaxSels == 2
MaxTyped == 1
MaxBlockLines == 4

(***************************************************************************)
(* Generic helpers on sequences.                                           *)
(***************************************************************************)
Min(a, b) == IF a < b THEN a ELSE b

Max(a, b) == IF a > b THEN a ELSE b

Rep(c, n) == [i \in 1..n |-> c]

\* s[from+1 .. to] with zero-based half-open offsets, as String.slice
Slice(s, from, to) == SubSeq(s, from + 1, to)

\* true iff pat occurs in s at zero-based offset p
StartsAt(s, p, pat) ==
    /\ p + Len(pat) <= Len(s)
    /\ \A i \in 1..Len(pat) : s[p + i] = pat[i]

\* String.contains
contains(s, pat) == \E p \in 0..Len(s) : StartsAt(s, p, pat)

\* String.endsWith
endsWith(s, pat) == Len(s) >= Len(pat) /\ StartsAt(s, Len(s) - Len(pat), pat)

\* the integers hi, hi-1, ..., lo as a sequence (a greedy quantifier's
\* backtracking order)
Descending(hi, lo) == [i \in 1..(hi - lo + 1) |-> hi - i + 1]

(***************************************************************************)
(* Character classes of the regular expressions.                           *)
(***************************************************************************)
WhitespaceChars == {" ", "\t"}

DigitChars == {"0", "1", "2", "3", "4", "5", "6", "7", "8", "9"}

\* the backquote character (the string lexer has no literal for it)
BACKTICK == "BACKTICK"

\* BLOCKS.CODEBLOCK, three backquotes
FENCE == <<BACKTICK, BACKTICK, BACKTICK>>

\* number of consecutive characters of class cls in s from offset p
RECURSIVE RunLength(_, _, _)
RunLength(s, p, cls) ==
    IF p < Len(s) /\ s[p + 1] \in cls THEN 1 + RunLength(s, p + 1, cls) ELSE 0

(***************************************************************************)
(* BLOCKS: each token pattern gives, for a line and an offset, the lengths *)
(* it can match there in the order the regex engine tries them.            *)
(***************************************************************************)
\* /- \[.]/
CHECKBOX(s, p) ==
    IF /\ p + 5 <= Len(s)
       /\ StartsAt(s, p, <<"-", " ", "[">>)
       /\ s[p + 5] = "]"
    THEN <<5>> ELSE <<>>

\* /-|\*|\+/
BULLET(s, p) ==
    IF p < Len(s) /\ s[p + 1] \in {"-", "*", "+"} THEN <<1>> ELSE <<>>

\* /[0-9]+[.)]/ : the digits are greedy, and a shorter run of digits is
\* followed by a digit, never by [.)]
NUMBER(s, p) ==
    LET n == RunLength(s, p, DigitChars)
    IN  IF n >= 1 /\ p + n < Len(s) /\ s[p + n + 1] \in {".", ")"}
        THEN <<n + 1>> ELSE <<>>

MaxHeading == 6

\* HEADING without the upper bound of six
HEADING_unbounded(s, p) == Descending(RunLength(s, p, {"#"}), 1)

\* /#{1,6}/ : greedy, backtracks to fewer #
HEADING(s, p) ==
    LET n == Min(RunLength(s, p, {"#"}), MaxHeading)
    IN  Descending(n, 1)

\* />/
QUOTE(s, p) ==
    IF p < Len(s) /\ s[p + 1] = ">" THEN <<1>> ELSE <<>>

\* ANY_BLOCK with the bullet listed before the checkbox
ANY_BLOCK_bulletFirst(s, p) ==
    BULLET(s, p) \o CHECKBOX(s, p) \o NUMBER(s, p) \o HEADING(s, p) \o QUOTE(s, p)

\* (?:CHECKBOX|BULLET|NUMBER|HEADING|QUOTE)
ANY_BLOCK(s, p) ==
    CHECKBOX(s, p) \o BULLET(s, p) \o NUMBER(s, p) \o HEADING(s, p) \o QUOTE(s, p)

\* CHECKBOX|BULLET|NUMBER
OVERRIDABLE_BLOCK(s, p) == CHECKBOX(s, p) \o BULLET(s, p) \o NUMBER(s, p)

\* OVERRIDING_BLOCK that takes every block token
OVERRIDING_BLOCK_anyBlock(s, p) == ANY_BLOCK(s, p)

\* BULLET|NUMBER
OVERRIDING_BLOCK(s, p) == BULLET(s, p) \o NUMBER(s, p)

NoGroup == -1

\* the first element of the sequence cands that lies in the set ok, or
\* NoGroup: the alternative the regex engine settles on
FirstThat(cands, ok) ==
    LET hits == {i \in 1..Len(cands) : cands[i] \in ok}
    IN  IF hits = {} THEN NoGroup
        ELSE cands[CHOOSE i \in hits : \A j \in hits : i <= j]

(***************************************************************************)
(* LINE_START_BLOCK = (?<prefix0>^\s*ANY_BLOCK )|(?:(?<prefix1>^FENCE).+)    *)
(* Both alternatives are anchored, so a match starts at offset 0.  The     *)
(* result gives the length of each named group, NoGroup when it is absent. *)
(***************************************************************************)
\* length of the token matched after w whitespace characters and followed
\* by a space, or NoGroup
TokenThenSpace(s, w) ==
    LET ok == {n \in 1..Len(s) : w + n < Len(s) /\ s[w + n + 1] = " "}
    IN  FirstThat(ANY_BLOCK(s, w), ok)

\* LINE_START_BLOCK with the indentation left outside the prefix0 group
LINE_START_BLOCK_tokenOnly(s) ==
    LET maxw == RunLength(s, 0, WhitespaceChars)
        okWs == {v \in 0..maxw : TokenThenSpace(s, v) # NoGroup}
        w == FirstThat(Descending(maxw, 0), okWs)
    IN  IF w # NoGroup
        THEN [matched |-> TRUE, prefix0 |-> TokenThenSpace(s, w) + 1,
              prefix1 |-> NoGroup]
        ELSE IF StartsAt(s, 0, FENCE) /\ Len(s) > Len(FENCE)
        THEN [matched |-> TRUE, prefix0 |-> NoGroup, prefix1 |-> Len(FENCE)]
        ELSE [matched |-> FALSE, prefix0 |-> NoGroup, prefix1 |-> NoGroup]

LINE_START_BLOCK(s) ==
    LET maxw == RunLength(s, 0, WhitespaceChars)
        okWs == {v \in 0..maxw : TokenThenSpace(s, v) # NoGroup}
        w == FirstThat(Descending(maxw, 0), okWs)
    IN  IF w # NoGroup
        THEN [matched |-> TRUE, prefix0 |-> w + TokenThenSpace(s, w) + 1,
              prefix1 |-> NoGroup]
        ELSE IF StartsAt(s, 0, FENCE) /\ Len(s) > Len(FENCE)
        THEN [matched |-> TRUE, prefix0 |-> NoGroup, prefix1 |-> Len(FENCE)]
        ELSE [matched |-> FALSE, prefix0 |-> NoGroup, prefix1 |-> NoGroup]

(***************************************************************************)
(* The host editor: line access.                                           *)
(***************************************************************************)
Pos(l, c) == [line |-> l, ch |-> c]

Sel(a, h) == [anchor |-> a, head |-> h]

getLine(d, n) == d[n + 1]

lastLine(d) == Len(d) - 1

(***************************************************************************)
(* select.ts                                                               *)
(***************************************************************************)
\* orderPositions that never exchanges the two positions
orderPositions_unordered(anchor, head) == <<anchor, head>>

\* orderPositions that compares the columns only
orderPositions_byColumn(anchor, head) ==
    IF anchor.ch < head.ch THEN <<anchor, head>> ELSE <<head, anchor>>

orderPositions(anchor, head) ==
    IF anchor.line < head.line THEN <<anchor, head>>
    ELSE IF anchor.line > head.line THEN <<head, anchor>>
    ELSE IF anchor.ch < head.ch THEN <<anchor, head>>
    ELSE <<head, anchor>>

\* paragraphStart that reads the group prefix0 only
paragraphStart_prefix0Only(line) ==
    LET groups == LINE_START_BLOCK(line)
    IN  IF groups.prefix0 # NoGroup THEN groups.prefix0
        ELSE 0

\* groups?.["prefix0"]?.length ?? groups?.["prefix1"]?.length ?? 0
paragraphStart(line) ==
    LET groups == LINE_START_BLOCK(line)
    IN  IF groups.prefix0 # NoGroup THEN groups.prefix0
        ELSE IF groups.prefix1 # NoGroup THEN groups.prefix1
        ELSE 0

\* selectLine that leaves the prefix out whatever avoidPrefixes is
selectLine_alwaysAvoid(d, selection, avoidPrefixes) ==
    LET ordered == orderPositions(selection.anchor, selection.head)
        start == ordered[1]
        end == ordered[2]
    IN  IF start.line # end.line
        THEN Sel(Pos(start.line, 0), Pos(end.line, Len(getLine(d, end.line))))
        ELSE LET lineNum == start.line
                 line == getLine(d, lineNum)
             IN  Sel(Pos(lineNum, paragraphStart(line)), Pos(lineNum, Len(line)))

\* selectLine that keeps the direction of the selection it is given
selectLine_keepDirection(d, selection, avoidPrefixes) ==
    LET ordered == orderPositions(selection.anchor, selection.head)
        start == ordered[1]
        end == ordered[2]
        forward == ordered[1] = selection.anchor
        Directed(from, to) == IF forward THEN Sel(from, to) ELSE Sel(to, from)
    IN  IF start.line # end.line \/ ~avoidPrefixes
        THEN Directed(Pos(start.line, 0),
                      Pos(end.line, Len(getLine(d, end.line))))
        ELSE LET lineNum == start.line
                 line == getLine(d, lineNum)
             IN  Directed(Pos(lineNum, paragraphStart(line)),
                          Pos(lineNum, Len(line)))

\* selectLine that counts the prefix from the start of the selection
selectLine_fromSelection(d, selection, avoidPrefixes) ==
    LET ordered == orderPositions(selection.anchor, selection.head)
        start == ordered[1]
        end == ordered[2]
    IN  IF start.line # end.line \/ ~avoidPrefixes
        THEN Sel(Pos(start.line, 0), Pos(end.line, Len(getLine(d, end.line))))
        ELSE LET lineNum == start.line
                 line == getLine(d, lineNum)
             IN  Sel(Pos(lineNum, Min(start.ch + paragraphStart(line), Len(line))),
                     Pos(lineNum, Len(line)))

selectLine(d, selection, avoidPrefixes) ==
    LET ordered == orderPositions(selection.anchor, selection.head)
        start == ordered[1]
        end == ordered[2]
    IN  IF start.line # end.line \/ ~avoidPrefixes
        THEN Sel(Pos(start.line, 0), Pos(end.line, Len(getLine(d, end.line))))
        ELSE LET lineNum == start.line
                 line == getLine(d, lineNum)
             IN  Sel(Pos(lineNum, paragraphStart(line)), Pos(lineNum, Len(line)))

(***************************************************************************)
(* The host editor: text ranges.  A range of several lines is the text of  *)
(* its lines joined by newline characters.                                 *)
(***************************************************************************)
NEWLINE == "\n"

PosLE(a, b) == a.line < b.line \/ (a.line = b.line /\ a.ch <= b.ch)

PosLT(a, b) == PosLE(a, b) /\ a # b

\* the start and the end of a selection in document order
From(sel) == IF PosLE(sel.anchor, sel.head) THEN sel.anchor ELSE sel.head

To(sel) == IF PosLE(sel.anchor, sel.head) THEN sel.head ELSE sel.anchor

RECURSIVE getRange(_, _, _)
getRange(d, from, to) ==
    IF from.line >= to.line
    THEN Slice(getLine(d, from.line), from.ch, to.ch)
    ELSE Slice(getLine(d, from.line), from.ch, Len(getLine(d, from.line)))
            \o <<NEWLINE>> \o getRange(d, Pos(from.line + 1, 0), to)

\* Editor.getSelection(): the text of the main selection
getSelection(d, sels) == getRange(d, From(sels[1]), To(sels[1]))

\* String.trim
trim(s) ==
    LET blank == WhitespaceChars \cup {NEWLINE}
        keep == {i \in 1..Len(s) : s[i] \notin blank}
    IN  IF keep = {} THEN <<>>
        ELSE SubSeq(s, CHOOSE i \in keep : \A j \in keep : i <= j,
                       CHOOSE i \in keep : \A j \in keep : i >= j)

\* offset of the first newline of text at or after p, or the end of text
RECURSIVE lineEnd(_, _)
lineEnd(text, p) ==
    IF p >= Len(text) \/ text[p + 1] = NEWLINE THEN p ELSE lineEnd(text, p + 1)

\* text.match(/FENCE.*/g): the matches from offset p on, in order; each
\* runs from a fence to the end of its line
RECURSIVE fenceMatches(_, _)
fenceMatches(text, p) ==
    IF p + Len(FENCE) > Len(text) THEN <<>>
    ELSE IF StartsAt(text, p, FENCE)
    THEN <<Slice(text, p, lineEnd(text, p))>>
            \o fenceMatches(text, lineEnd(text, p))
    ELSE fenceMatches(text, p + 1)

\* the forEach over the matches with every fence toggling
RECURSIVE foldFences_toggleOnly(_, _)
foldFences_toggleOnly(matches, isInCodeBlock) ==
    IF matches = <<>> THEN isInCodeBlock
    ELSE foldFences_toggleOnly(Tail(matches), ~isInCodeBlock)

\* the forEach over the matches: a fence with a language specifier opens,
\* a bare fence toggles
RECURSIVE foldFences(_, _)
foldFences(matches, isInCodeBlock) ==
    IF matches = <<>> THEN isInCodeBlock
    ELSE foldFences(Tail(matches),
                    IF Len(trim(Head(matches))) > Len(FENCE) THEN TRUE
                    ELSE ~isInCodeBlock)

NotFound == -1

\* the upward while loop: the nearest line at or above n that contains a
\* fence, NotFound when line 0 is passed
RECURSIVE searchUp(_, _)
searchUp(d, n) ==
    IF contains(getLine(d, n), FENCE) THEN n
    ELSE IF n <= 0 THEN NotFound
    ELSE searchUp(d, n - 1)

\* the downward search that takes the last line of the document as the
\* end of the block when no line ends with a fence
RECURSIVE searchDown_toLastLine(_, _)
searchDown_toLastLine(d, n) ==
    IF endsWith(getLine(d, n), FENCE) THEN n
    ELSE IF n >= lastLine(d) THEN n + 1
    ELSE searchDown_toLastLine(d, n + 1)

\* the downward while loop: the nearest line at or below n that ends with
\* a fence, NotFound when the last line is passed
RECURSIVE searchDown(_, _)
searchDown(d, n) ==
    IF endsWith(getLine(d, n), FENCE) THEN n
    ELSE IF n >= lastLine(d) THEN NotFound
    ELSE searchDown(d, n + 1)

\* trySelectCodeBlock that returns the range from fence line to fence line
trySelectCodeBlock_withFences(d, sels) ==
    LET selection == sels[1]
        none == [ret |-> <<>>, threw |-> FALSE]
        textAbove == getRange(d, Pos(0, 0), selection.anchor)
        isInCodeBlock == foldFences(fenceMatches(textAbove, 0), FALSE)
        anchorLine == searchUp(d, selection.anchor.line)
        headLine == searchDown(d, selection.head.line)
    IN  IF sels = <<>> THEN none
        ELSE IF contains(getSelection(d, sels), FENCE) THEN none
        ELSE IF \/ contains(getLine(d, selection.anchor.line), FENCE)
                \/ contains(getLine(d, selection.anchor.line), FENCE)
        THEN none
        ELSE IF ~isInCodeBlock THEN none
        ELSE IF anchorLine = NotFound THEN none
        ELSE IF headLine = NotFound THEN none
        ELSE [ret |-> <<Sel(Pos(anchorLine, 0),
                            Pos(headLine, Len(getLine(d, headLine))))>>,
              threw |-> FALSE]

\* trySelectCodeBlock: ret is the returned selection as a sequence (empty
\* for undefined); threw is set when a getLine call is given a line that
\* the document does not have
trySelectCodeBlock(d, sels) ==
    LET selection == sels[1]
        none == [ret |-> <<>>, threw |-> FALSE]
        textAbove == getRange(d, Pos(0, 0), selection.anchor)
        isInCodeBlock == foldFences(fenceMatches(textAbove, 0), FALSE)
        anchorLine == searchUp(d, selection.anchor.line)
        headLine == searchDown(d, selection.head.line)
    IN  IF sels = <<>> THEN none
        ELSE IF contains(getSelection(d, sels), FENCE) THEN none
        ELSE IF \/ contains(getLine(d, selection.anchor.line), FENCE)
                \/ contains(getLine(d, selection.anchor.line), FENCE)
        THEN none
        ELSE IF ~isInCodeBlock THEN none
        ELSE IF anchorLine = NotFound THEN none
        ELSE IF headLine = NotFound THEN none
        ELSE IF headLine - 1 < 0 THEN [ret |-> <<>>, threw |-> TRUE]
        ELSE [ret |-> <<Sel(Pos(anchorLine + 1, 0),
                            Pos(headLine - 1, Len(getLine(d, headLine - 1))))>>,
              threw |-> FALSE]

\* the map with every output computed from the first selection
mapSelectLine_firstForAll(d, sels, avoidPrefixes) ==
    [k \in 1..Len(sels) |-> selectLine(d, sels[1], avoidPrefixes)]

\* selections.map((sel) => selectLine(editor, sel, avoidPrefixes))
mapSelectLine(d, sels, avoidPrefixes) ==
    [k \in 1..Len(sels) |-> selectLine(d, sels[k], avoidPrefixes)]

positionEqual(a, b) == a.ch = b.ch /\ a.line = b.line

\* selectionEqual that compares the anchor of one with the head of the
\* other
selectionEqual_crossed(a, b) ==
    positionEqual(a.anchor, b.head) /\ positionEqual(a.head, b.anchor)

selectionEqual(a, b) ==
    positionEqual(a.anchor, b.anchor) /\ positionEqual(a.head, b.head)

\* the loop runs over the indexes of a; b has the same length at the call
selectionsEqual(a, b) == \A i \in 1..Len(a) : selectionEqual(a[i], b[i])

(***************************************************************************)
(* IS_OVERRIDING: at the line start a run of whitespace (group            *)
(* whitespace), an OVERRIDABLE_BLOCK (group existing), one space and an    *)
(* OVERRIDING_BLOCK (group new).  The result gives the text of the groups  *)
(* and the length of the whole match.                                      *)
(***************************************************************************)
\* length of the <new> token at offset q, or NoGroup
NewTokenAt(s, q) ==
    FirstThat(OVERRIDING_BLOCK(s, q), 1..Len(s))

\* length of the <existing> token after w whitespace characters for which
\* the rest of the pattern matches, or NoGroup
ExistingTokenAt(s, w) ==
    LET ok == {n \in 1..Len(s) : /\ w + n < Len(s)
                                 /\ s[w + n + 1] = " "
                                 /\ NewTokenAt(s, w + n + 1) # NoGroup}
    IN  FirstThat(OVERRIDABLE_BLOCK(s, w), ok)

\* IS_OVERRIDING whose match takes the space that follows the new token
IS_OVERRIDING_trailingSpace(s) ==
    LET maxw == RunLength(s, 0, WhitespaceChars)
        okWs == {v \in 0..maxw : ExistingTokenAt(s, v) # NoGroup}
        w == FirstThat(Descending(maxw, 0), okWs)
        e == ExistingTokenAt(s, w)
        n == NewTokenAt(s, w + e + 1)
        end == w + e + 1 + n
        sp == IF end < Len(s) /\ s[end + 1] = " " THEN 1 ELSE 0
    IN  IF w = NoGroup
        THEN [matched |-> FALSE, length |-> NoGroup, whitespace |-> <<>>,
              existing |-> <<>>, new |-> <<>>]
        ELSE [matched |-> TRUE, length |-> end + sp,
              whitespace |-> Slice(s, 0, w),
              existing |-> Slice(s, w, w + e),
              new |-> Slice(s, w + e + 1, end)]

IS_OVERRIDING(s) ==
    LET maxw == RunLength(s, 0, WhitespaceChars)
        okWs == {v \in 0..maxw : ExistingTokenAt(s, v) # NoGroup}
        w == FirstThat(Descending(maxw, 0), okWs)
        e == ExistingTokenAt(s, w)
        n == NewTokenAt(s, w + e + 1)
    IN  IF w = NoGroup
        THEN [matched |-> FALSE, length |-> NoGroup, whitespace |-> <<>>,
              existing |-> <<>>, new |-> <<>>]
        ELSE [matched |-> TRUE, length |-> w + e + 1 + n,
              whitespace |-> Slice(s, 0, w),
              existing |-> Slice(s, w, w + e),
              new |-> Slice(s, w + e + 1, w + e + 1 + n)]

(***************************************************************************)
(* replace.ts: tryReplace, as the sequence of replaceRange calls it makes  *)
(* for a document and a cursor.                                            *)
(***************************************************************************)
\* tryReplace without the comparison of the two tokens
tryReplace_noSameCheck(d, cursor) ==
    LET lineNum == cursor.line
        ch == cursor.ch
        line == getLine(d, lineNum)
        match == IS_OVERRIDING(line)
    IN  IF ~match.matched \/ match.length # ch THEN <<>>
        ELSE <<[text |-> match.new,
                from |-> Pos(lineNum, Len(match.whitespace)),
                to |-> Pos(lineNum, match.length)]>>

\* tryReplace without the comparison of the match length with the cursor
tryReplace_anyCursor(d, cursor) ==
    LET lineNum == cursor.line
        line == getLine(d, lineNum)
        match == IS_OVERRIDING(line)
    IN  IF ~match.matched THEN <<>>
        ELSE IF match.new = match.existing THEN <<>>
        ELSE <<[text |-> match.new,
                from |-> Pos(lineNum, Len(match.whitespace)),
                to |-> Pos(lineNum, match.length)]>>

\* tryReplace that replaces the existing token only
tryReplace_existingOnly(d, cursor) ==
    LET lineNum == cursor.line
        ch == cursor.ch
        line == getLine(d, lineNum)
        match == IS_OVERRIDING(line)
    IN  IF ~match.matched \/ match.length # ch THEN <<>>
        ELSE IF match.new = match.existing THEN <<>>
        ELSE <<[text |-> match.new,
                from |-> Pos(lineNum, Len(match.whitespace)),
                to |-> Pos(lineNum, Len(match.whitespace)
                                      + Len(match.existing))]>>

\* tryReplace that replaces from the start of the line
tryReplace_fromLineStart(d, cursor) ==
    LET lineNum == cursor.line
        ch == cursor.ch
        line == getLine(d, lineNum)
        match == IS_OVERRIDING(line)
    IN  IF ~match.matched \/ match.length # ch THEN <<>>
        ELSE IF match.new = match.existing THEN <<>>
        ELSE <<[text |-> match.new,
                from |-> Pos(lineNum, 0),
                to |-> Pos(lineNum, match.length)]>>

tryReplace(d, cursor) ==
    LET lineNum == cursor.line
        ch == cursor.ch
        line == getLine(d, lineNum)
        match == IS_OVERRIDING(line)
    IN  IF ~match.matched \/ match.length # ch THEN <<>>
        ELSE IF match.new = match.existing THEN <<>>
        ELSE <<[text |-> match.new,
                from |-> Pos(lineNum, Len(match.whitespace)),
                to |-> Pos(lineNum, match.length)]>>

\* Editor.replaceRange within one line
replaceRange(d, edit) ==
    LET line == getLine(d, edit.from.line)
    IN  [d EXCEPT ![edit.from.line + 1] =
            Slice(line, 0, edit.from.ch) \o edit.text
                \o Slice(line, edit.to.ch, Len(line))]

RECURSIVE applyEdits(_, _)
applyEdits(d, edits) ==
    IF edits = <<>> THEN d
    ELSE applyEdits(replaceRange(d, Head(edits)), Tail(edits))

\* where the host puts a position of the edited line after the edit: a
\* position at or before the start of the replaced range stays, one at or
\* after its end moves with the text that follows, one inside it goes to
\* the end of the inserted text
mapPos(pos, edit) ==
    IF pos.line # edit.from.line \/ pos.ch <= edit.from.ch THEN pos
    ELSE IF pos.ch >= edit.to.ch
    THEN Pos(pos.line, pos.ch - (edit.to.ch - edit.from.ch) + Len(edit.text))
    ELSE Pos(pos.line, edit.from.ch + Len(edit.text))

RECURSIVE mapSelections(_, _)
mapSelections(sels, edits) ==
    IF edits = <<>> THEN sels
    ELSE mapSelections(
            [k \in 1..Len(sels) |->
                Sel(mapPos(sels[k].anchor, Head(edits)),
                    mapPos(sels[k].head, Head(edits)))],
            Tail(edits))

\* Editor.getCursor(): the head of the main selection
getCursor(sels) == sels[1].head

(***************************************************************************)
(* The record kept of the last invocation.                                 *)
(*   op        what ran                                                    *)
(*   input     the selections it was given                                 *)
(*   avoid     the avoidPrefixes argument (selectLine)                     *)
(*   ret       the returned selection(s), as a sequence                    *)
(*   setSel    the arguments of the setSelections calls, in order          *)
(*   fallback  the number of selectClosestCmContent calls                  *)
(*   listed    whether listSelections was called                           *)
(*   edits     the replaceRange calls, in order                            *)
(*   before    the document before the invocation                          *)
(*   handled   the value the key handler returned                          *)
(*   tried     whether trySelectCodeBlock was called                       *)
(*   codeBlock the selection trySelectCodeBlock returned, as a sequence    *)
(*   lineRule  whether the selections were mapped through selectLine       *)
(*   threw     whether the invocation ended in an exception                *)
(*   selected  whether the fallback selected the contents of a container   *)
(*   prev      what the invocation before this one was and did             *)
(***************************************************************************)
NoPrev == [op |-> "none", fallback |-> 0, threw |-> FALSE, setSel |-> <<>>]

NoLog ==
    [op |-> "none", input |-> <<>>, avoid |-> FALSE, ret |-> <<>>,
     setSel |-> <<>>, fallback |-> 0, listed |-> FALSE, edits |-> <<>>,
     before |-> <<>>, handled |-> FALSE, tried |-> FALSE,
     codeBlock |-> <<>>, lineRule |-> FALSE, threw |-> FALSE,
     selected |-> FALSE, prev |-> NoPrev]

\* what is kept of an invocation when the next one is made
Previous(l) ==
    [op |-> l.op, fallback |-> l.fallback, threw |-> l.threw,
     setSel |-> l.setSel]

DEFAULT_SETTINGS ==
    [replaceBlocks |-> TRUE, selectBlockAvoidsPrefixes |-> TRUE,
     selectAllIfUnchanged |-> FALSE, selectFullCodeBlock |-> FALSE]

SettingsSpace ==
    [replaceBlocks : BOOLEAN, selectBlockAvoidsPrefixes : BOOLEAN,
     selectAllIfUnchanged : BOOLEAN, selectFullCodeBlock : BOOLEAN]

\* the DOM selection is anchored in ordinary editor content and an editor
\* is active
PlainHost == [anchorNode |-> "content", editor |-> TRUE]

(***************************************************************************)
(* Positions and selections of a document.                                 *)
(***************************************************************************)
Positions(d) ==
    UNION {{Pos(l, c) : c \in 0..Len(getLine(d, l))} : l \in 0..lastLine(d)}

AllSelections(d) == {Sel(a, h) : a \in Positions(d), h \in Positions(d)}

(***************************************************************************)
(* Input lines: indentation, a token (or none), a space (or none) and a    *)
(* tail.                                                                   *)
(***************************************************************************)
Indents == {Rep(" ", k) : k \in 0..MaxIndent} \cup {<<"\t">>}

NumberTokens ==
    {Rep("1", k) \o <<e>> : k \in 1..MaxDigits, e \in {".", ")"}}

PoolTokens ==
    {<<>>, <<"-", " ", "[", " ", "]">>, <<"-", " ", "[", "x", "]">>,
     <<"-", " ", "[", "]", "]">>, <<"-">>, <<"*">>, <<"+">>, <<">">>, FENCE}
    \cup NumberTokens
    \cup {Rep("#", k) : k \in 1..MaxHashes}

Separators == {<<>>, <<" ">>}

Tails == {<<>>, <<"a">>, <<"a", " ">>}

LinePool ==
    {w \o t \o s \o x : w \in Indents, t \in PoolTokens, s \in Separators,
                         x \in Tails}

\* a few lines for the documents of more than one line
ShortLines ==
    {<<>>, <<"-", " ", "a">>, <<" ", "1", ".", " ", "b">>, <<"#", " ">>,
     FENCE \o <<"a">>}

RECURSIVE SeqsOfLength(_, _)
SeqsOfLength(S, n) ==
    IF n = 0 THEN {<<>>}
    ELSE {<<x>> \o t : x \in S, t \in SeqsOfLength(S, n - 1)}

SelectLineDocs ==
    {<<l>> : l \in LinePool} \cup
    UNION {SeqsOfLength(ShortLines, n) : n \in 2..MaxLines}

(***************************************************************************)
(* Specification SpecSelectLine: selectLine applied to one selection of a  *)
(* document.                                                               *)
(***************************************************************************)
InitSelectLine ==
    /\ doc \in SelectLineDocs
    /\ selections \in {<<s>> : s \in AllSelections(doc)}
    /\ settings \in {[DEFAULT_SETTINGS EXCEPT !.selectBlockAvoidsPrefixes = b] :
                        b \in BOOLEAN}
    /\ host = PlainHost
    /\ typed = 0
    /\ log = NoLog

CallSelectLine ==
    /\ log' = [NoLog EXCEPT
                 !.op = "selectLine",
                 !.input = selections,
                 !.avoid = settings.selectBlockAvoidsPrefixes,
                 !.before = doc,
                 !.ret = <<selectLine(doc, selections[1],
                                      settings.selectBlockAvoidsPrefixes)>>]
    /\ UNCHANGED <<doc, selections, settings, host, typed>>

NextSelectLine == CallSelectLine

SpecSelectLine == InitSelectLine /\ [][NextSelectLine]_vars

(***************************************************************************)
(* The prefix grammar as the specification words it, used to state the     *)
(* properties of the classifier: a token is a string, recognised by its    *)
(* shape.                                                                  *)
(***************************************************************************)
IsCheckboxToken(t) ==
    Len(t) = 5 /\ t[1] = "-" /\ t[2] = " " /\ t[3] = "[" /\ t[5] = "]"

IsBulletToken(t) == t \in {<<"-">>, <<"*">>, <<"+">>}

IsNumberToken(t) ==
    /\ Len(t) >= 2
    /\ \A i \in 1..(Len(t) - 1) : t[i] \in DigitChars
    /\ t[Len(t)] \in {".", ")"}

IsHeadingToken(t) == Len(t) \in 1..6 /\ \A i \in 1..Len(t) : t[i] = "#"

IsQuoteToken(t) == t = <<">">>

IsParagraphToken(t) ==
    \/ IsCheckboxToken(t)
    \/ IsBulletToken(t)
    \/ IsNumberToken(t)
    \/ IsHeadingToken(t)
    \/ IsQuoteToken(t)

\* the ways to read a line as w whitespace characters, a token of n
\* characters recognised by IsToken, and a space
Readings(line, IsToken(_)) ==
    {r \in (0..Len(line)) \X (1..Len(line)) :
        /\ r[1] + r[2] < Len(line)
        /\ \A i \in 1..r[1] : line[i] \in WhitespaceChars
        /\ IsToken(Slice(line, r[1], r[1] + r[2]))
        /\ line[r[1] + r[2] + 1] = " "}

\* the readings of a line with a paragraph-style token; where the line
\* reads both as a bullet and as a checkbox, the checkbox is the token
PrefixReadings(line) ==
    LET all == Readings(line, IsParagraphToken)
    IN  {r \in all : ~(r[2] = 1 /\ <<r[1], 5>> \in all)}

IsFenceOrParagraphToken(t) == t = FENCE \/ IsParagraphToken(t)

\* selectLine ran on a selection that lies within one line
SingleLineCall ==
    /\ log.op = "selectLine"
    /\ log.input[1].anchor.line = log.input[1].head.line

CalledLineNum == log.input[1].anchor.line

CalledLine == getLine(log.before, CalledLineNum)

WholeCalledLine ==
    Sel(Pos(CalledLineNum, 0), Pos(CalledLineNum, Len(CalledLine)))

\* C1: on a line made of whitespace W, a paragraph-style token P and a
\* space, selectLine with avoidPrefixes on a single-line selection returns
\* the selection from column len(W)+len(P)+1 to the end of the line.
C1_PrefixExcluded ==
    (SingleLineCall /\ log.avoid) =>
        \A r \in PrefixReadings(CalledLine) :
            log.ret[1] = Sel(Pos(CalledLineNum, r[1] + r[2] + 1),
                             Pos(CalledLineNum, Len(CalledLine)))

\* an indented numbered line was classified and text remains after the prefix
C1_Witness ==
    /\ SingleLineCall /\ log.avoid
    /\ \E r \in PrefixReadings(CalledLine) :
          /\ r[1] >= 1 /\ r[2] >= 2
          /\ CalledLine[r[1] + 1] \in DigitChars
          /\ log.ret[1].anchor.ch = r[1] + r[2] + 1
          /\ log.ret[1].head.ch > log.ret[1].anchor.ch

\* C2: on a line W + checkbox + space + text the selection starts after
\* the whole checkbox, at len(W)+6, never after the bullet at len(W)+2.
C2_CheckboxBeforeBullet ==
    (SingleLineCall /\ log.avoid) =>
        \A r \in Readings(CalledLine, IsCheckboxToken) :
            /\ log.ret[1].anchor = Pos(CalledLineNum, r[1] + 6)
            /\ log.ret[1].anchor.ch # r[1] + 2
            /\ log.ret[1].head = Pos(CalledLineNum, Len(CalledLine))

C2_Witness ==
    /\ SingleLineCall /\ log.avoid
    /\ \E r \in Readings(CalledLine, IsCheckboxToken) :
          /\ r[1] >= 1
          /\ CalledLine[r[1] + 4] = "x"
          /\ log.ret[1].anchor.ch = r[1] + 6

\* C3 as claimed: a line that does not start, after optional whitespace,
\* with a recognised token followed by a space has prefix length 0 and is
\* selected whole.
C3_Original ==
    (/\ SingleLineCall /\ log.avoid
     /\ Readings(CalledLine, IsFenceOrParagraphToken) = {}) =>
        log.ret[1] = WholeCalledLine

\* the line starts at column 0 with a fence that is followed by at least
\* one more character
IsFenceOpenerLine(line) == StartsAt(line, 0, FENCE) /\ Len(line) > Len(FENCE)

\* C3 as amended: a line that does not start, after optional whitespace,
\* with a paragraph-style token followed by a space, and that does not
\* begin at column 0 with three backquotes followed by at least one more
\* character, has prefix length 0 and is selected whole.
C3_NoPrefix ==
    (/\ SingleLineCall /\ log.avoid
     /\ Readings(CalledLine, IsParagraphToken) = {}
     /\ ~IsFenceOpenerLine(CalledLine)) =>
        log.ret[1] = WholeCalledLine

\* a run of seven # followed by a space was selected whole
C3_Witness ==
    /\ SingleLineCall /\ log.avoid
    /\ StartsAt(CalledLine, 0, Rep("#", 7) \o <<" ">>)
    /\ log.ret[1] = WholeCalledLine

\* C4: for a selection with ends on lines i < j, selectLine returns the
\* anchor (i,0) and the head (j, len(line j)), whichever end is the anchor
\* and whatever avoidPrefixes is.
C4_MultiLine ==
    (/\ log.op = "selectLine"
     /\ log.input[1].anchor.line # log.input[1].head.line) =>
        LET i == Min(log.input[1].anchor.line, log.input[1].head.line)
            j == Max(log.input[1].anchor.line, log.input[1].head.line)
        IN  log.ret[1] = Sel(Pos(i, 0), Pos(j, Len(getLine(log.before, j))))

\* a backward selection over two prefixed lines, with avoidPrefixes on
C4_Witness ==
    /\ log.op = "selectLine" /\ log.avoid
    /\ log.input[1].anchor.line > log.input[1].head.line
    /\ PrefixReadings(getLine(log.before, log.input[1].head.line)) # {}
    /\ PrefixReadings(getLine(log.before, log.input[1].anchor.line)) # {}
    /\ log.ret[1].anchor.line < log.ret[1].head.line

\* C5: with avoidPrefixes off, a single-line selection becomes the full
\* line, from column 0, also on a line that carries a prefix.
C5_PrefixKept ==
    (SingleLineCall /\ ~log.avoid) => log.ret[1] = WholeCalledLine

C5_Witness ==
    /\ SingleLineCall /\ ~log.avoid
    /\ PrefixReadings(CalledLine) # {}
    /\ log.ret[1] = WholeCalledLine
    /\ Len(CalledLine) > 0

\* the two ends of the given selection are the end of the line's prefix
\* and the end of the line
AlreadyExpanded ==
    /\ SingleLineCall /\ log.avoid
    /\ {log.input[1].anchor.ch, log.input[1].head.ch}
         = {paragraphStart(CalledLine), Len(CalledLine)}

\* C7 as claimed: a single-line selection whose ends are the end of the
\* prefix and the end of the line is returned with the same anchor and the
\* same head, whichever end is the anchor.
C7_Original == AlreadyExpanded => log.ret[1] = log.input[1]

\* C7 as amended: such a selection is returned unchanged when its anchor is
\* the end of the prefix and its head the end of the line; when the anchor
\* is the end of the line and the head the end of the prefix, selectLine
\* returns it with anchor and head exchanged.
C7_Idempotent ==
    AlreadyExpanded =>
        /\ log.input[1].anchor.ch <= log.input[1].head.ch
              => log.ret[1] = log.input[1]
        /\ log.input[1].anchor.ch > log.input[1].head.ch
              => log.ret[1] = Sel(log.input[1].head, log.input[1].anchor)

\* both directions occur on a line whose prefix is shorter than the line
C7_Witness ==
    /\ AlreadyExpanded
    /\ log.input[1].anchor.ch > log.input[1].head.ch
    /\ log.input[1].head.ch > 0
    /\ log.ret[1] = Sel(log.input[1].head, log.input[1].anchor)

(***************************************************************************)
(* Specification SpecTryReplace: tryReplace applied to a document and a    *)
(* cursor.  The lines are made of indentation, a first token, a separator, *)
(* a second token and a tail.                                              *)
(***************************************************************************)
FirstTokens ==
    {<<>>, <<"-", " ", "[", "x", "]">>, <<"-">>, <<"*">>, <<"#">>, <<">">>}
    \cup NumberTokens

SecondTokens ==
    {<<"-">>, <<"*">>, <<"+">>, <<"1", ".">>, <<"1", ")">>, <<"2", ".">>,
     <<"-", " ", "[", "x", "]">>, <<"#">>, <<">">>, <<"a">>}
    \cup NumberTokens

OverrideSeparators == {<<>>, <<" ">>, <<" ", " ">>}

OverrideTails == {<<>>, <<" ">>, <<" ", "a">>}

OverrideLines ==
    {w \o e \o s \o n \o x :
        w \in Indents, e \in FirstTokens, s \in OverrideSeparators,
        n \in SecondTokens, x \in OverrideTails}

TryReplaceDocs ==
    {<<l>> : l \in OverrideLines} \cup
    UNION {SeqsOfLength({<<"-", " ", "1", ".">>, <<"1", ".", " ", "-", " ", "a">>}, n) :
              n \in 2..MaxLines}

Carets(d) == {<<Sel(p, p)>> : p \in Positions(d)}

InitTryReplace ==
    /\ doc \in TryReplaceDocs
    /\ selections \in Carets(doc)
    /\ settings = DEFAULT_SETTINGS
    /\ host = PlainHost
    /\ typed = 0
    /\ log = NoLog

CallTryReplace ==
    LET edits == tryReplace(doc, getCursor(selections))
    IN  /\ log.op = "none"
        /\ doc' = applyEdits(doc, edits)
        /\ selections' = mapSelections(selections, edits)
        /\ log' = [NoLog EXCEPT
                     !.op = "tryReplace",
                     !.input = selections,
                     !.before = doc,
                     !.edits = edits]
        /\ UNCHANGED <<settings, host, typed>>

NextTryReplace == CallTryReplace

SpecTryReplace == InitTryReplace /\ [][NextTryReplace]_vars

\* the override pattern as the specification words it
IsOverridableToken(t) ==
    IsCheckboxToken(t) \/ IsBulletToken(t) \/ IsNumberToken(t)

IsOverridingToken(t) == IsBulletToken(t) \/ IsNumberToken(t)

\* the ways to read the start of a line as w whitespace characters, an
\* existing token of e characters, a space and a new token of n characters
\* (the longest number where the new token is a number)
OverrideReadings(line) ==
    {r \in (0..Len(line)) \X (1..Len(line)) \X (1..Len(line)) :
        LET w == r[1]
            e == r[2]
            n == r[3]
        IN  /\ w + e + 1 + n <= Len(line)
            /\ \A i \in 1..w : line[i] \in WhitespaceChars
            /\ IsOverridableToken(Slice(line, w, w + e))
            /\ line[w + e + 1] = " "
            /\ IsOverridingToken(Slice(line, w + e + 1, w + e + 1 + n))}

ReadExisting(line, r) == Slice(line, r[1], r[1] + r[2])

ReadNew(line, r) == Slice(line, r[1] + r[2] + 1, r[1] + r[2] + 1 + r[3])

ReadLength(r) == r[1] + r[2] + 1 + r[3]

ReplaceCalled == log.op = "tryReplace"

ReplaceLineNum == getCursor(log.input).line

ReplaceCh == getCursor(log.input).ch

ReplaceLine == getLine(log.before, ReplaceLineNum)

\* C8: tryReplace performs no edit when the existing token and the new
\* token of the line are the same text, wherever the cursor is.
C8_SameTokenNoEdit ==
    ReplaceCalled =>
        \A r \in OverrideReadings(ReplaceLine) :
            ReadExisting(ReplaceLine, r) = ReadNew(ReplaceLine, r)
                => log.edits = <<>> /\ doc = log.before

\* the cursor is right after an indented bullet typed after the same bullet
C8_Witness ==
    /\ ReplaceCalled
    /\ \E r \in OverrideReadings(ReplaceLine) :
          /\ ReadExisting(ReplaceLine, r) = ReadNew(ReplaceLine, r)
          /\ ReadLength(r) = ReplaceCh
          /\ r[1] >= 1
    /\ log.edits = <<>>

DashOneDot == <<"-", " ", "1", ".", " ">>

\* C9: tryReplace edits only if the line matches the override pattern and
\* the length of the match equals the cursor offset; on the line "- 1. "
\* it edits with the cursor at 4 and at no other offset.
C9_OnlyAtMatchEnd ==
    ReplaceCalled =>
        /\ log.edits # <<>> =>
              \E r \in OverrideReadings(ReplaceLine) : ReadLength(r) = ReplaceCh
        /\ OverrideReadings(ReplaceLine) = {} => doc = log.before
        /\ ReplaceLine = DashOneDot => (log.edits # <<>> <=> ReplaceCh = 4)

\* the cursor is one past the end of the match on "- 1. " and nothing is
\* edited
C9_Witness ==
    /\ ReplaceCalled
    /\ ReplaceLine = DashOneDot
    /\ ReplaceCh = 5
    /\ log.edits = <<>>
    /\ doc = log.before

IsEmpty(sel) == sel.anchor = sel.head

\* the ranges sorted by their start, keeping the order of equal starts
RECURSIVE sortByFrom(_)
sortByFrom(sels) ==
    IF sels = <<>> THEN <<>>
    ELSE LET firsts == {i \in 1..Len(sels) :
                           \A j \in 1..Len(sels) : PosLE(From(sels[i]), From(sels[j]))}
             i == CHOOSE k \in firsts : \A j \in firsts : k <= j
         IN  <<sels[i]>> \o
             sortByFrom([k \in 1..(Len(sels) - 1) |->
                            IF k < i THEN sels[k] ELSE sels[k + 1]])

\* merges each range into the previous one where it starts before the
\* previous one ends (at its end too, for an empty range)
RECURSIVE mergeSorted(_, _)
mergeSorted(acc, rest) ==
    IF rest = <<>> THEN acc
    ELSE LET r == Head(rest)
             prev == acc[Len(acc)]
             overlaps ==
                 /\ acc # <<>>
                 /\ IF IsEmpty(r) THEN PosLE(From(r), To(prev))
                    ELSE PosLT(From(r), To(prev))
             to == IF PosLE(To(r), To(prev)) THEN To(prev) ELSE To(r)
             merged == IF PosLT(r.head, r.anchor) THEN Sel(to, From(prev))
                       ELSE Sel(From(prev), to)
         IN  IF overlaps
             THEN mergeSorted(SubSeq(acc, 1, Len(acc) - 1) \o <<merged>>,
                              Tail(rest))
             ELSE mergeSorted(acc \o <<r>>, Tail(rest))

normalized(sels) == mergeSorted(<<>>, sortByFrom(sels))

\* the positions at the two ends of each line
LineEnds(d) ==
    {p \in Positions(d) : p.ch = 0 \/ p.ch = Len(getLine(d, p.line))}

\* whether the host keeps r as a range of its own after prev
Follows(prev, r) ==
    IF IsEmpty(r) THEN PosLT(To(prev), From(r)) ELSE PosLE(To(prev), From(r))

\* the sorted lists of n selections that the host keeps apart, each between
\* the ends of a line or covering two consecutive lines
RECURSIVE SortedLists(_, _)
SortedLists(d, n) ==
    LET pool == {r \in {Sel(a, h) : a \in LineEnds(d), h \in LineEnds(d)} :
                    \/ To(r).line = From(r).line
                    \/ To(r).line = From(r).line + 1 /\ From(r).ch = 0
                          /\ To(r).ch = Len(getLine(d, To(r).line))}
    IN  IF n = 1 THEN {<<s>> : s \in pool}
        ELSE UNION {{l \o <<s>> : s \in {r \in pool : Follows(l[Len(l)], r)}} :
                       l \in SortedLists(d, n - 1)}

\* the selection lists the user can make: any single selection, and lists
\* of up to MaxSels selections between line ends
SelectionLists(d) ==
    {<<s>> : s \in AllSelections(d)} \cup
    UNION {SortedLists(d, n) : n \in 2..MaxSels}

SelectAll(d) == Sel(Pos(0, 0), Pos(lastLine(d), Len(getLine(d, lastLine(d)))))

\* Editor.replaceSelection for one selection: the selected text is replaced
\* by text
replaceSelection(d, sel, text) ==
    LET f == From(sel)
        t == To(sel)
        line == Slice(getLine(d, f.line), 0, f.ch) \o text
                  \o Slice(getLine(d, t.line), t.ch, Len(getLine(d, t.line)))
    IN  SubSeq(d, 1, f.line) \o <<line>> \o SubSeq(d, t.line + 2, Len(d))

(***************************************************************************)
(* Specification Spec: the plugin in the editor.                           *)
(***************************************************************************)
MainDocs ==
    {<<<<"-", " ", "a">>, <<" ", "1", ".", " ", "b">>>>,
     <<<<"#", " ">>, <<>>, <<"-", "a">>>>,
     <<FENCE \o <<"a">>, <<"x">>, FENCE>>,
     <<FENCE, <<"-", " ", "x">>, FENCE, <<"y">>>>,
     <<FENCE, <<"x">>>>,
     <<<<"-", " ", "1", ".">>, <<"a">>>>,
     <<<<" ", "1", ".", " ", "-", " ", "b">>>>}

AnchorNodes == {"none", "table", "content", "other"}

HostSpace == [anchorNode : AnchorNodes, editor : BOOLEAN]

\* the plugin is loaded in an editor that holds some document, with some
\* selections, settings and platform selection
Init ==
    /\ doc \in MainDocs
    /\ selections \in SelectionLists(doc)
    /\ settings \in SettingsSpace
    /\ host \in HostSpace
    /\ typed = 0
    /\ log = NoLog

\* closest(..., "table") that finds no table
closestTable_never(h) == FALSE

\* closest(..., "table") that takes a missing anchor node for a table
closestTable_missingNode(h) == h.anchorNode \in {"table", "none"}

\* closest(document.getSelection()?.anchorNode, "table")
closestTable(h) == h.anchorNode = "table"

\* the test before trySelectCodeBlock without the count of the selections
triesCodeBlock_anyCount(opts, sels) == opts.selectFullCodeBlock

\* opts.selectFullCodeBlock && selections.length === 1
triesCodeBlock(opts, sels) == opts.selectFullCodeBlock /\ Len(sels) = 1

\* selectClosestCmContent finds a .cm-content above the anchor node
\* (a table cell of the live preview holds one)
closestContent(h) == h.anchorNode \in {"table", "content"}

\* the selections after selectClosestCmContent: the host may bring the
\* editor's selection in line with the range selected in its content
AfterFallback(next) ==
    IF host.anchorNode = "content"
    THEN next \in {selections, <<SelectAll(doc)>>}
    ELSE next = selections

\* runSelectBlock(editor, opts)
RunSelectBlock ==
    LET called == [NoLog EXCEPT !.op = "runSelectBlock", !.input = selections,
                                !.before = doc, !.prev = Previous(log)]
        tries == triesCodeBlock(settings, selections)
        maybeSelection == IF tries THEN trySelectCodeBlock(doc, selections)
                          ELSE [ret |-> <<>>, threw |-> FALSE]
        lineRule == maybeSelection.ret = <<>>
        newSelections ==
            IF lineRule
            THEN mapSelectLine(doc, selections, settings.selectBlockAvoidsPrefixes)
            ELSE maybeSelection.ret
        listed == [called EXCEPT !.listed = TRUE, !.tried = tries,
                                 !.codeBlock = maybeSelection.ret]
    IN  /\ UNCHANGED <<doc, settings, host, typed>>
        /\ IF closestTable(host) \/ ~host.editor
           THEN /\ log' = [called EXCEPT !.fallback = 1,
                                         !.selected = closestContent(host)]
                /\ AfterFallback(selections')
           ELSE IF maybeSelection.threw
           THEN /\ log' = [listed EXCEPT !.threw = TRUE]
                /\ selections' = selections
           ELSE IF /\ settings.selectAllIfUnchanged
                   /\ selectionsEqual(selections, newSelections)
           THEN /\ log' = [listed EXCEPT !.lineRule = lineRule,
                                         !.ret = newSelections,
                                         !.fallback = 1,
                                         !.selected = closestContent(host)]
                /\ AfterFallback(selections')
           ELSE /\ log' = [listed EXCEPT !.lineRule = lineRule,
                                         !.ret = newSelections,
                                         !.setSel = <<newSelections>>]
                /\ selections' = normalized(newSelections)

\* the Space key with the space typed before the keymap handler runs
KeySpace_spaceFirst ==
    LET spaced == replaceSelection(doc, selections[1], <<" ">>)
        after == Pos(From(selections[1]).line, From(selections[1]).ch + 1)
        edits == IF settings.replaceBlocks /\ host.editor
                 THEN tryReplace(spaced, after)
                 ELSE <<>>
    IN  /\ typed < MaxTyped
        /\ Len(selections) = 1
        /\ typed' = typed + 1
        /\ doc' = applyEdits(spaced, edits)
        /\ selections' = mapSelections(<<Sel(after, after)>>, edits)
        /\ log' = [NoLog EXCEPT !.op = "space", !.input = selections,
                                !.before = doc, !.edits = edits,
                                !.handled = FALSE, !.prev = Previous(log)]
        /\ UNCHANGED <<settings, host>>

\* the Space key: the keymap handler runs on the document as it is, returns
\* false, and the host then types the space over the selection
KeySpace ==
    LET edits == IF settings.replaceBlocks /\ host.editor
                 THEN tryReplace(doc, getCursor(selections))
                 ELSE <<>>
        replaced == applyEdits(doc, edits)
        moved == mapSelections(selections, edits)
    IN  /\ typed < MaxTyped
        /\ Len(selections) = 1
        /\ typed' = typed + 1
        /\ doc' = replaceSelection(replaced, moved[1], <<" ">>)
        /\ selections' = <<Sel(Pos(From(moved[1]).line, From(moved[1]).ch + 1),
                               Pos(From(moved[1]).line, From(moved[1]).ch + 1))>>
        /\ log' = [NoLog EXCEPT !.op = "space", !.input = selections,
                                !.before = doc, !.edits = edits,
                                !.handled = FALSE, !.prev = Previous(log)]
        /\ UNCHANGED <<settings, host>>

Next ==
    \/ RunSelectBlock
    \/ KeySpace

Spec == Init /\ [][Next]_vars

\* the end of the prefix of a line as the specification words it: after
\* indentation, paragraph-style token and space, after the three backquotes
\* of a fence opener, and 0 otherwise
PrefixEnd(line) ==
    IF PrefixReadings(line) # {}
    THEN LET r == CHOOSE r \in PrefixReadings(line) : TRUE IN r[1] + r[2] + 1
    ELSE IF IsFenceOpenerLine(line) THEN Len(FENCE)
    ELSE 0

\* the expansion of one selection by the line rule
LineExpansion(d, sel, avoid) ==
    LET i == Min(sel.anchor.line, sel.head.line)
        j == Max(sel.anchor.line, sel.head.line)
    IN  Sel(Pos(i, IF i = j /\ avoid THEN PrefixEnd(getLine(d, i)) ELSE 0),
            Pos(j, Len(getLine(d, j))))

\* runSelectBlock called setSelections with the result of the line rule
SetAfterLineRule ==
    log.op = "runSelectBlock" /\ log.setSel # <<>> /\ log.lineRule

\* C6: when runSelectBlock calls setSelections after the per-selection
\* path, it passes one output selection per input selection, in the same
\* order, and output k is the expansion of input selection k alone.
C6_OnePerSelection ==
    SetAfterLineRule =>
        /\ Len(log.setSel) = 1
        /\ Len(log.setSel[1]) = Len(log.input)
        /\ \A k \in 1..Len(log.input) :
              log.setSel[1][k] =
                 LineExpansion(log.before, log.input[k],
                               settings.selectBlockAvoidsPrefixes)

\* two cursors on lines with prefixes of different lengths were expanded
C6_Witness ==
    /\ SetAfterLineRule
    /\ Len(log.input) = 2
    /\ settings.selectBlockAvoidsPrefixes
    /\ log.setSel[1][1].anchor.ch = 2
    /\ log.setSel[1][2].anchor.ch = 4

(***************************************************************************)
(* The override matcher on given lines and tokens.                         *)
(***************************************************************************)
OneDotDash == <<"1", ".", " ", "-", " ">>

\* C11 as claimed: on the line "1. - " with the cursor at offset 5 the
\* override fires with existing "1." and new "-", replaces characters 0 to
\* 2 with "-" and leaves the line "- - ".
C11_Original ==
    (ReplaceCalled /\ ReplaceLine = OneDotDash /\ ReplaceCh = 5) =>
        /\ log.edits = <<[text |-> <<"-">>, from |-> Pos(ReplaceLineNum, 0),
                          to |-> Pos(ReplaceLineNum, 2)]>>
        /\ getLine(doc, ReplaceLineNum) = <<"-", " ", "-", " ">>

\* C11 as amended: on the line "1. - " the match is "1. -", of length 4,
\* so that with the cursor at offset 5 nothing is edited; with the cursor
\* at offset 4 the override fires with existing "1." and new "-", replaces
\* characters 0 to 4 with "-" and leaves the line "- ".
C11_OneDotDash ==
    (ReplaceCalled /\ ReplaceLine = OneDotDash) =>
        /\ ReplaceCh = 5 => log.edits = <<>> /\ doc = log.before
        /\ ReplaceCh = 4 =>
              /\ IS_OVERRIDING(ReplaceLine).existing = <<"1", ".">>
              /\ IS_OVERRIDING(ReplaceLine).new = <<"-">>
              /\ log.edits = <<[text |-> <<"-">>,
                                from |-> Pos(ReplaceLineNum, 0),
                                to |-> Pos(ReplaceLineNum, 4)]>>
              /\ getLine(doc, ReplaceLineNum) = <<"-", " ">>

\* "1. - " with the cursor at 4 became "- "
C11_Witness ==
    /\ ReplaceCalled
    /\ ReplaceLine = OneDotDash
    /\ ReplaceCh = 4
    /\ log.edits # <<>>
    /\ getLine(doc, ReplaceLineNum) = <<"-", " ">>

\* the first token of the line begins as a heading or a quote
FirstTokenHeadingOrQuote(line) ==
    \E w \in 0..(Len(line) - 1) :
        /\ \A i \in 1..w : line[i] \in WhitespaceChars
        /\ line[w + 1] \in {"#", ">"}

\* the offsets at which a token is typed after whitespace, an overridable
\* token and a space
TypedOffsets(line) ==
    {r[1] + r[2] + 1 : r \in Readings(line, IsOverridableToken)}

CheckboxTyped(line, q) ==
    q \in TypedOffsets(line) /\ q + 5 <= Len(line)
        /\ IsCheckboxToken(Slice(line, q, q + 5))

HeadingOrQuoteTyped(line, q) ==
    q \in TypedOffsets(line) /\ q < Len(line) /\ line[q + 1] \in {"#", ">"}

\* C12 as claimed: tryReplace performs no edit when the first token of the
\* line is a heading or a quote, and none when the token typed after the
\* existing prefix is a heading, a quote or a checkbox, for every cursor
\* offset.
C12_Original ==
    ReplaceCalled =>
        /\ FirstTokenHeadingOrQuote(ReplaceLine) => log.edits = <<>>
        /\ \A q \in 0..Len(ReplaceLine) :
              (HeadingOrQuoteTyped(ReplaceLine, q) \/ CheckboxTyped(ReplaceLine, q))
                 => log.edits = <<>>

\* C12 as amended: tryReplace performs no edit when the first token of the
\* line is a heading or a quote, and none when the token typed after the
\* existing prefix is a heading or a quote, for every cursor offset; a
\* checkbox typed after the existing prefix is read as the bullet "-" it
\* begins with, so that tryReplace edits exactly when the cursor is right
\* after that "-" and the existing token is not "-" itself, and the edit
\* puts "-" in the place of the existing token, the space and the "-".
C12_OnlyListTokens ==
    ReplaceCalled =>
        /\ FirstTokenHeadingOrQuote(ReplaceLine) =>
              log.edits = <<>> /\ doc = log.before
        /\ \A q \in 0..Len(ReplaceLine) :
              /\ HeadingOrQuoteTyped(ReplaceLine, q) =>
                    log.edits = <<>> /\ doc = log.before
              /\ CheckboxTyped(ReplaceLine, q) =>
                    /\ log.edits # <<>> <=>
                          /\ ReplaceCh = q + 1
                          /\ IS_OVERRIDING(ReplaceLine).existing # <<"-">>
                    /\ log.edits # <<>> =>
                          /\ log.edits[1].text = <<"-">>
                          /\ log.edits[1].to = Pos(ReplaceLineNum, q + 1)

\* a checkbox typed after a number was taken as a bullet with the cursor
\* right after its "-"
C12_Witness ==
    /\ ReplaceCalled
    /\ CheckboxTyped(ReplaceLine, ReplaceCh - 1)
    /\ IsNumberToken(IS_OVERRIDING(ReplaceLine).existing)
    /\ log.edits # <<>>
    /\ log.edits[1].text = <<"-">>

(***************************************************************************)
(* The Space key.                                                          *)
(***************************************************************************)
SpacePressed == log.op = "space"

SpaceLineNum == getCursor(log.input).line

SpaceCh == getCursor(log.input).ch

SpaceLine == getLine(log.before, SpaceLineNum)

\* Space was pressed with replaceBlocks on and the cursor, an empty
\* selection, at the end of whitespace, existing token, space and new
\* token, read as r
SpaceAtOverride(r) ==
    /\ SpacePressed
    /\ settings.replaceBlocks
    /\ Len(log.input) = 1 /\ IsEmpty(log.input[1])
    /\ r \in OverrideReadings(SpaceLine)
    /\ ReadLength(r) = SpaceCh
    /\ ReadExisting(SpaceLine, r) # ReadNew(SpaceLine, r)

\* tryReplace ran on the line as it was before the space, the key was not
\* consumed, and the line is whitespace, new token, space and the text that
\* was after the cursor, the other lines being as they were
SpaceOverrides(r) ==
    /\ log.handled = FALSE
    /\ log.edits = <<[text |-> ReadNew(SpaceLine, r),
                      from |-> Pos(SpaceLineNum, r[1]),
                      to |-> Pos(SpaceLineNum, SpaceCh)]>>
    /\ Len(doc) = Len(log.before)
    /\ getLine(doc, SpaceLineNum) =
          Slice(SpaceLine, 0, r[1]) \o ReadNew(SpaceLine, r) \o <<" ">>
              \o Slice(SpaceLine, SpaceCh, Len(SpaceLine))
    /\ \A n \in 0..lastLine(doc) :
          n # SpaceLineNum => getLine(doc, n) = getLine(log.before, n)

\* C13 as claimed: when Space is pressed with replaceBlocks on and the
\* cursor at the end of whitespace, existing token, space and a different
\* new token, tryReplace runs on the line as it is before the space is
\* inserted, the key is not consumed, and after the host inserts the space
\* the line is whitespace, new token, space and the unchanged text that was
\* after the cursor; all other lines are unchanged.
C13_Original ==
    SpacePressed =>
        /\ log.handled = FALSE
        /\ \A r \in OverrideReadings(SpaceLine) :
              SpaceAtOverride(r) => SpaceOverrides(r)

\* C13 as amended: the same, when moreover a Markdown view is active, the
\* handler calling tryReplace only then; the key is not consumed in any
\* case, and with no Markdown view the host inserts the space and nothing
\* is replaced.
C13_SpaceOrdering ==
    SpacePressed =>
        /\ log.handled = FALSE
        /\ \A r \in OverrideReadings(SpaceLine) : SpaceAtOverride(r) =>
              IF host.editor THEN SpaceOverrides(r)
              ELSE /\ log.edits = <<>>
                   /\ getLine(doc, SpaceLineNum) =
                         Slice(SpaceLine, 0, SpaceCh) \o <<" ">>
                             \o Slice(SpaceLine, SpaceCh, Len(SpaceLine))

\* Space after " 1. -" followed by " b" left " - " followed by " b"
C13_Witness ==
    /\ SpacePressed /\ host.editor
    /\ SpaceLine = <<" ", "1", ".", " ", "-", " ", "b">>
    /\ SpaceAtOverride(<<1, 2, 1>>)
    /\ getLine(doc, SpaceLineNum) = <<" ", "-", " ", " ", "b">>

(***************************************************************************)
(* Specification SpecCodeBlock: trySelectCodeBlock applied to a document   *)
(* made of fence lines and text lines, and to its one selection.           *)
(***************************************************************************)
CodeLines ==
    {FENCE, FENCE \o <<"a">>, FENCE \o <<" ">>, <<"x">>, <<>>,
     FENCE \o <<"a">> \o FENCE}

CodeDocs == UNION {SeqsOfLength(CodeLines, n) : n \in 1..MaxBlockLines}

\* the carets of the document and the ranges between ends of lines
CodeSelections(d) ==
    {Sel(p, p) : p \in Positions(d)}
        \cup {Sel(a, h) : a \in LineEnds(d), h \in LineEnds(d)}

InitCodeBlock ==
    /\ doc \in CodeDocs
    /\ selections \in {<<s>> : s \in CodeSelections(doc)}
    /\ settings = [DEFAULT_SETTINGS EXCEPT !.selectFullCodeBlock = TRUE]
    /\ host = PlainHost
    /\ typed = 0
    /\ log = NoLog

CallTrySelectCodeBlock ==
    LET maybeSelection == trySelectCodeBlock(doc, selections)
    IN  /\ log.op = "none"
        /\ log' = [NoLog EXCEPT
                     !.op = "trySelectCodeBlock",
                     !.input = selections,
                     !.before = doc,
                     !.tried = TRUE,
                     !.ret = maybeSelection.ret,
                     !.codeBlock = maybeSelection.ret,
                     !.threw = maybeSelection.threw]
        /\ UNCHANGED <<doc, selections, settings, host, typed>>

NextCodeBlock == CallTrySelectCodeBlock

SpecCodeBlock == InitCodeBlock /\ [][NextCodeBlock]_vars

CodeBlockCalled == log.op = "trySelectCodeBlock"

\* a fence opener as the specification words it: three backquotes at
\* column 0 followed by a language tag, by whitespace only, or by nothing
IsOpeningFence(line) ==
    /\ StartsAt(line, 0, FENCE)
    /\ ~contains(Slice(line, 3, Len(line)), FENCE)

\* the document is an opening fence, interior lines without a fence, and a
\* closing line of exactly three backquotes
IsOneBlock(d) ==
    /\ Len(d) >= 3
    /\ IsOpeningFence(d[1])
    /\ d[Len(d)] = FENCE
    /\ \A i \in 2..(Len(d) - 1) : ~contains(d[i], FENCE)

\* C14: in a document made of an opening fence line, interior lines
\* without a triple backquote and a closing line of exactly three
\* backquotes, with a caret on an interior line, trySelectCodeBlock returns
\* the selection from the start of the first interior line to the end of
\* the last interior line.
C14_WholeInterior ==
    (/\ CodeBlockCalled
     /\ IsOneBlock(log.before)
     /\ IsEmpty(log.input[1])
     /\ log.input[1].head.line \in 1..(Len(log.before) - 2)) =>
        /\ ~log.threw
        /\ log.ret = <<Sel(Pos(1, 0),
                           Pos(Len(log.before) - 2,
                               Len(log.before[Len(log.before) - 1])))>>

\* a caret on the second of two interior lines under a tagged opener gave
\* both interior lines
C14_Witness ==
    /\ CodeBlockCalled
    /\ IsOneBlock(log.before)
    /\ Len(log.before) = 4
    /\ log.before[1] = FENCE \o <<"a">>
    /\ log.before[3] = <<"x">>
    /\ log.input[1] = Sel(Pos(2, 1), Pos(2, 1))
    /\ log.ret = <<Sel(Pos(1, 0), Pos(2, 1))>>

\* the fence scan over the text above the anchor says: in a code block
ScanSaysInside ==
    foldFences(fenceMatches(getRange(log.before, Pos(0, 0),
                                     log.input[1].anchor), 0), FALSE)

\* no line from the cursor's line down to the last line ends with a fence
Unterminated ==
    \A n \in log.input[1].head.line..lastLine(log.before) :
        ~endsWith(getLine(log.before, n), FENCE)

\* C15: if the fence scan says the cursor is inside a code block but no
\* line from the cursor's line down to the last line of the document ends
\* with three backquotes, trySelectCodeBlock returns no selection.
C15_Unterminated ==
    (CodeBlockCalled /\ ScanSaysInside /\ Unterminated) =>
        log.ret = <<>> /\ ~log.threw

\* a caret under a tagged opener that nothing closes, in a document that
\* goes on for two more lines, gave no selection
C15_Witness ==
    /\ CodeBlockCalled /\ ScanSaysInside /\ Unterminated
    /\ Len(log.before) >= 3
    /\ log.before[1] = FENCE \o <<"a">>
    /\ log.input[1] = Sel(Pos(1, 0), Pos(1, 0))
    /\ ~contains(getLine(log.before, 1), FENCE)
    /\ log.ret = <<>>

\* C16: trySelectCodeBlock returns no selection whenever the selected text
\* contains a triple backquote, and whenever the line of the anchor or the
\* line of the head contains a triple backquote.
C16_NoFenceTouched ==
    (/\ CodeBlockCalled
     /\ \/ contains(getSelection(log.before, log.input), FENCE)
        \/ contains(getLine(log.before, log.input[1].anchor.line), FENCE)
        \/ contains(getLine(log.before, log.input[1].head.line), FENCE)) =>
        log.ret = <<>>

(***************************************************************************)
(* Fence lines under the line classifier.                                  *)
(***************************************************************************)
\* three backquotes at column 0 followed by a language tag
IsTaggedFenceLine(line) ==
    /\ StartsAt(line, 0, FENCE)
    /\ \E i \in (Len(FENCE) + 1)..Len(line) : line[i] \notin WhitespaceChars

\* three backquotes at column 0 followed by nothing or by whitespace only
IsBareFenceLine(line) ==
    /\ StartsAt(line, 0, FENCE)
    /\ \A i \in (Len(FENCE) + 1)..Len(line) : line[i] \in WhitespaceChars

\* C17 as claimed: on a fence opener with a language tag the classifier
\* reports prefix length 0, and selectLine with avoidPrefixes on a
\* single-line selection in it starts the selection at column 0.
C17_Original ==
    (SingleLineCall /\ log.avoid /\ IsTaggedFenceLine(CalledLine)) =>
        /\ paragraphStart(CalledLine) = 0
        /\ log.ret[1].anchor = Pos(CalledLineNum, 0)

\* C17 as amended: on a fence opener with a language tag the classifier
\* reports the three backquotes as the prefix (length 3), and selectLine
\* with avoidPrefixes on a single-line selection in it returns the
\* selection from column 3 to the end of the line.
C17_FencePrefix ==
    (SingleLineCall /\ log.avoid /\ IsTaggedFenceLine(CalledLine)) =>
        /\ paragraphStart(CalledLine) = Len(FENCE)
        /\ log.ret[1] = Sel(Pos(CalledLineNum, Len(FENCE)),
                            Pos(CalledLineNum, Len(CalledLine)))

\* a caret in a fence line with the tag "a" gave the selection of the tag
C17_Witness ==
    /\ SingleLineCall /\ log.avoid
    /\ CalledLine = FENCE \o <<"a">>
    /\ IsEmpty(log.input[1])
    /\ log.ret[1] = Sel(Pos(CalledLineNum, 3), Pos(CalledLineNum, 4))

\* C18: a line of three backquotes followed by nothing or by whitespace
\* only is not matched as a code-block opener by the line classifier: it
\* yields no prefix and a single-line selection in it starts at column 0.
C18_BareFenceNoPrefix ==
    (SingleLineCall /\ log.avoid /\ IsBareFenceLine(CalledLine)) =>
        /\ paragraphStart(CalledLine) = 0
        /\ log.ret[1] = WholeCalledLine

(***************************************************************************)
(* runSelectBlock: which of the fallback and setSelections it calls.       *)
(***************************************************************************)
SelectBlockCalled == log.op = "runSelectBlock"

\* C19: when the platform selection is anchored inside a table, or no
\* editor is supplied, runSelectBlock invokes the fallback and returns
\* without reading the selections of the editor and without calling
\* setSelections, whatever the settings are.
C19_TableOrNoEditor ==
    (SelectBlockCalled /\ (host.anchorNode = "table" \/ ~host.editor)) =>
        /\ log.fallback = 1
        /\ ~log.listed
        /\ ~log.tried
        /\ log.ret = <<>>
        /\ log.setSel = <<>>

\* in a table, with an editor and with every option on, only the fallback
\* ran
C19_Witness ==
    /\ SelectBlockCalled
    /\ host.anchorNode = "table" /\ host.editor
    /\ settings.selectFullCodeBlock /\ settings.selectAllIfUnchanged
    /\ settings.selectBlockAvoidsPrefixes
    /\ log.fallback = 1
    /\ log.setSel = <<>>

\* every computed selection has the anchor and the head of the original
\* selection of the same index
ComputedUnchanged ==
    /\ Len(log.ret) = Len(log.input)
    /\ \A i \in 1..Len(log.input) :
          /\ log.ret[i].anchor = log.input[i].anchor
          /\ log.ret[i].head = log.input[i].head

\* C20: outside a table (and with an editor), runSelectBlock invokes the
\* fallback instead of setSelections if and only if selectAllIfUnchanged
\* is on and every computed selection has the anchor and the head of its
\* original selection, anchor and head swapped not counting as unchanged;
\* in every other case setSelections is called exactly once with the
\* computed selections.
C20_FallbackIffUnchanged ==
    (SelectBlockCalled /\ host.anchorNode # "table" /\ host.editor) =>
        IF settings.selectAllIfUnchanged /\ ComputedUnchanged
        THEN log.fallback = 1 /\ log.setSel = <<>>
        ELSE log.fallback = 0 /\ log.listed /\ Len(log.ret) = Len(log.input)
                /\ log.setSel = <<log.ret>>

(***************************************************************************)
(* Two consecutive invocations of runSelectBlock.                          *)
(***************************************************************************)
\* runSelectBlock ran right after runSelectBlock, with nothing in between
SecondActivation == SelectBlockCalled /\ log.prev.op = "runSelectBlock"

\* C21 as claimed: with selectAllIfUnchanged on and outside a table, two
\* consecutive invocations of runSelectBlock invoke the select-all fallback
\* by the second invocation at the latest, for every document, every
\* starting selection set and every value of the other settings.
C21_Original ==
    (/\ SecondActivation
     /\ settings.selectAllIfUnchanged
     /\ host.anchorNode # "table" /\ host.editor) =>
        log.prev.fallback = 1 \/ log.fallback = 1

\* C21 as amended: with selectAllIfUnchanged on, selectFullCodeBlock off
\* and outside a table, two consecutive invocations of runSelectBlock
\* invoke the select-all fallback by the second invocation at the latest:
\* the selections that the first invocation wrote by the line rule are
\* found unchanged by the second.
C21_DoubleActivation ==
    (/\ SecondActivation
     /\ settings.selectAllIfUnchanged /\ ~settings.selectFullCodeBlock
     /\ host.anchorNode # "table" /\ host.editor) =>
        /\ ~log.threw /\ ~log.prev.threw
        /\ log.prev.fallback = 1 \/ log.fallback = 1
        /\ log.prev.fallback = 0 =>
              /\ log.input = normalized(log.prev.setSel[1])
              /\ log.ret = log.input

\* the first invocation set two selections and the second one, finding
\* them unchanged, invoked the fallback
C21_Witness ==
    /\ SecondActivation
    /\ settings.selectAllIfUnchanged /\ ~settings.selectFullCodeBlock
    /\ host.anchorNode # "table" /\ host.editor
    /\ log.prev.fallback = 0
    /\ log.prev.setSel # <<>>
    /\ Len(log.input) = 2
    /\ log.fallback = 1
    /\ log.setSel = <<>>

(***************************************************************************)
(* runSelectBlock with no platform selection object.                       *)
(***************************************************************************)
NoSelectionObject ==
    SelectBlockCalled /\ host.anchorNode = "none" /\ host.editor

\* C22 as claimed: when the host reports no platform selection object
\* while an editor is present, runSelectBlock invokes the fallback rather
\* than computing and setting expanded selections.
C22_Original ==
    NoSelectionObject => log.fallback = 1 /\ log.setSel = <<>>

\* C22 as amended: when the host reports no platform selection object
\* while an editor is present, no table is found and runSelectBlock reads
\* the selections of the editor and computes the expanded selections as it
\* does outside a table; the fallback is invoked only where
\* selectAllIfUnchanged is on and the computed selections are unchanged,
\* and it then selects nothing; with selectAllIfUnchanged and
\* selectFullCodeBlock off setSelections is called with the selections of
\* the line rule.
C22_NoSelectionObject ==
    NoSelectionObject =>
        /\ log.listed
        /\ log.fallback = 1 =>
              /\ settings.selectAllIfUnchanged /\ ComputedUnchanged
              /\ ~log.selected
              /\ log.setSel = <<>>
              /\ selections = log.input
        /\ (~settings.selectAllIfUnchanged /\ ~settings.selectFullCodeBlock) =>
              log.setSel = <<mapSelectLine(log.before, log.input,
                                           settings.selectBlockAvoidsPrefixes)>>

\* with no selection object and an editor, expanded selections were set
C22_Witness ==
    /\ NoSelectionObject
    /\ log.listed
    /\ log.fallback = 0
    /\ log.setSel = <<log.ret>>
    /\ log.ret # log.input

(***************************************************************************)
(* What the two operations leave alone.                                    *)
(***************************************************************************)
\* the number of whitespace characters that the line starts with
LeadingWhitespace(line) ==
    CHOOSE w \in 0..Len(line) :
        /\ \A i \in 1..w : line[i] \in WhitespaceChars
        /\ w < Len(line) => line[w + 1] \notin WhitespaceChars

\* the document as tryReplace left it, before the host typed the space
AfterReplace == applyEdits(log.before, log.edits)

\* C23: runSelectBlock never changes the text of the document; tryReplace
\* issues at most one replaceRange per invocation, within the cursor's
\* line from the end of the leading whitespace to the cursor, and leaves
\* the leading whitespace, the text after the cursor and every other line
\* as they were.
C23_Frame ==
    /\ SelectBlockCalled => doc = log.before
    /\ SpacePressed =>
          LET w == LeadingWhitespace(SpaceLine)
              rest == Len(SpaceLine) - SpaceCh
              left == getLine(AfterReplace, SpaceLineNum)
          IN  /\ Len(log.edits) <= 1
              /\ \A k \in 1..Len(log.edits) :
                    /\ log.edits[k].from = Pos(SpaceLineNum, w)
                    /\ log.edits[k].to = Pos(SpaceLineNum, SpaceCh)
                    /\ w < SpaceCh
              /\ Len(AfterReplace) = Len(log.before)
              /\ \A n \in 0..lastLine(log.before) :
                    n # SpaceLineNum =>
                        getLine(AfterReplace, n) = getLine(log.before, n)
              /\ Slice(left, 0, w) = Slice(SpaceLine, 0, w)
              /\ Slice(left, Len(left) - rest, Len(left)) =
                    Slice(SpaceLine, SpaceCh, Len(SpaceLine))
              /\ (Len(log.input) = 1 /\ IsEmpty(log.input[1])) =>
                    /\ Len(doc) = Len(log.before)
                    /\ \A n \in 0..lastLine(log.before) :
                          n # SpaceLineNum =>
                              getLine(doc, n) = getLine(log.before, n)
                    /\ Slice(getLine(doc, SpaceLineNum), 0, w) =
                          Slice(SpaceLine, 0, w)
                    /\ Slice(getLine(doc, SpaceLineNum),
                             Len(getLine(doc, SpaceLineNum)) - rest,
                             Len(getLine(doc, SpaceLineNum))) =
                          Slice(SpaceLine, SpaceCh, Len(SpaceLine))

\* one replaceRange was issued on an indented line that has text after the
\* cursor, in a document of one line, and a later runSelectBlock left the
\* text alone
C23_Witness ==
    /\ SelectBlockCalled
    /\ log.prev.op = "space"
    /\ doc = log.before
    /\ doc = <<<<" ", "-", " ", " ", "b">>>>

(***************************************************************************)
(* What trySelectCodeBlock returns.                                        *)
(***************************************************************************)
\* C24: trySelectCodeBlock is total: for every document and every single
\* selection it reads only lines that the document has, and either returns
\* no selection or returns a selection whose lines are in the document,
\* the anchor's line not after the head's, and that holds the lines of the
\* original anchor and head.
C24_Total ==
    CodeBlockCalled =>
        /\ ~log.threw
        /\ log.ret # <<>> =>
              /\ 0 <= log.ret[1].anchor.line
              /\ log.ret[1].anchor.line <= log.ret[1].head.line
              /\ log.ret[1].head.line <= lastLine(log.before)
              /\ log.ret[1].anchor.line <=
                    Min(log.input[1].anchor.line, log.input[1].head.line)
              /\ log.ret[1].head.line >=
                    Max(log.input[1].anchor.line, log.input[1].head.line)

(***************************************************************************)
(* The code-block short-circuit of runSelectBlock.                         *)
(***************************************************************************)
\* runSelectBlock went past the table test and read the selections
SelectionsRead == SelectBlockCalled /\ log.listed

\* the selection is a caret on a line between two fence lines
CaretInsideBlock(d, sel) ==
    /\ IsEmpty(sel)
    /\ ~contains(getLine(d, sel.head.line), FENCE)
    /\ \E i \in 0..(sel.head.line - 1) : StartsAt(getLine(d, i), 0, FENCE)
    /\ \E j \in (sel.head.line + 1)..lastLine(d) : getLine(d, j) = FENCE

\* C25: the code-block short-circuit is attempted only when
\* selectFullCodeBlock is on and the editor holds exactly one selection;
\* otherwise every selection is expanded by the line rule, even where its
\* cursor lies inside a fenced code block; and when the short-circuit
\* returns a selection the line rule is not applied at all.
C25_ShortCircuit ==
    SelectionsRead =>
        /\ log.tried <=> (settings.selectFullCodeBlock /\ Len(log.input) = 1)
        /\ ~log.tried =>
              /\ log.lineRule /\ log.codeBlock = <<>>
              /\ Len(log.ret) = Len(log.input)
              /\ \A k \in 1..Len(log.input) :
                    log.ret[k] = LineExpansion(log.before, log.input[k],
                                               settings.selectBlockAvoidsPrefixes)
        /\ log.codeBlock # <<>> =>
              /\ log.tried /\ ~log.lineRule
              /\ log.ret = log.codeBlock
              /\ Len(log.ret) = 1

\* with selectFullCodeBlock on, two carets inside a fenced code block were
\* expanded by the line rule
C25_Witness ==
    /\ SelectionsRead
    /\ settings.selectFullCodeBlock
    /\ Len(log.input) = 2
    /\ \A k \in 1..2 : CaretInsideBlock(log.before, log.input[k])
    /\ ~log.tried /\ log.lineRule
    /\ log.setSel = <<log.ret>>

(***************************************************************************)
(* The fence scan as a fold.                                               *)
(***************************************************************************)
\* the text from the start of the document to the anchor
TextAbove == getRange(log.before, Pos(0, 0), log.input[1].anchor)

\* whether text has a character that is not whitespace between p and the
\* end of the line of p
TextFollows(text, p) ==
    \E i \in (p + 1)..lineEnd(text, p) : text[i] \notin WhitespaceChars

\* the fold over every fence of the text, from offset p on
RECURSIVE OccurrenceFold(_, _, _)
OccurrenceFold(text, p, flag) ==
    IF p + Len(FENCE) > Len(text) THEN flag
    ELSE IF StartsAt(text, p, FENCE)
    THEN OccurrenceFold(text, p + Len(FENCE),
                        IF TextFollows(text, p + Len(FENCE)) THEN TRUE
                        ELSE ~flag)
    ELSE OccurrenceFold(text, p + 1, flag)

\* the fold over the first fence of every line of the text, from offset p on
RECURSIVE FirstFenceFold(_, _, _)
FirstFenceFold(text, p, flag) ==
    IF p + Len(FENCE) > Len(text) THEN flag
    ELSE IF StartsAt(text, p, FENCE)
    THEN FirstFenceFold(text, lineEnd(text, p),
                        IF TextFollows(text, p + Len(FENCE)) THEN TRUE
                        ELSE ~flag)
    ELSE FirstFenceFold(text, p + 1, flag)

\* C26 as claimed: the inside flag equals the fold, from false, over the
\* fence occurrences of the text from the start of the document to the
\* cursor, a fence followed by text other than whitespace setting the flag
\* and a fence followed by nothing or by whitespace only negating it; no
\* selection is returned when the folded flag is false.
C26_Original ==
    CodeBlockCalled =>
        /\ ScanSaysInside = OccurrenceFold(TextAbove, 0, FALSE)
        /\ ~OccurrenceFold(TextAbove, 0, FALSE) => log.ret = <<>>

\* C26 as amended: the fold runs over the first fence of each line of that
\* text, taken with the rest of its line: a fence followed on its line by
\* anything other than whitespace, a further fence included, sets the flag,
\* a fence followed by nothing or by whitespace only negates it, and the
\* later fences of a line are not folded; no selection is returned when
\* the folded flag is false.
C26_FenceParity ==
    CodeBlockCalled =>
        /\ ScanSaysInside = FirstFenceFold(TextAbove, 0, FALSE)
        /\ ~FirstFenceFold(TextAbove, 0, FALSE) => log.ret = <<>> /\ ~log.threw

\* a caret below a tagged opener and its closing fence gave no selection
C26_Witness ==
    /\ CodeBlockCalled
    /\ log.before = <<FENCE \o <<"a">>, <<"x">>, FENCE, <<"x">>>>
    /\ log.input = <<Sel(Pos(3, 1), Pos(3, 1))>>
    /\ ~FirstFenceFold(TextAbove, 0, FALSE)
    /\ log.ret = <<>>

(***************************************************************************)
(* suggest.ts: the callout suggestions.  The candidates are the pieces of  *)
(* the setting calloutSuggestions between commas, trimmed; the query is    *)
(* what onTrigger reads between the callout opener and the cursor.         *)
(***************************************************************************)
MaxCandidates == 3

WordChars == {"a", "b", "c", "_"} \cup DigitChars

\* String.startsWith
startsWith(s, pat) == StartsAt(s, 0, pat)

\* String.split(","): the pieces of s from offset p on
RECURSIVE split(_, _)
split(s, p) ==
    LET commas == {i \in (p + 1)..Len(s) : s[i] = ","}
        next == CHOOSE i \in commas : \A j \in commas : i <= j
    IN  IF commas = {} THEN <<Slice(s, p, Len(s))>>
        ELSE <<Slice(s, p, next - 1)>> \o split(s, next)

\* csv.split(",").map((str) => str.trim())
calloutCandidates(csv) ==
    LET pieces == split(csv, 0)
    IN  [k \in 1..Len(pieces) |-> trim(pieces[k])]

CalloutOpener == <<">", " ", "[", "!">>

NoTrigger == [triggered |-> FALSE, query |-> <<>>]

\* onTrigger with the trigger regex of CalloutSuggest: whitespace, the
\* callout opener and word characters up to the cursor
onTrigger(d, cursor) ==
    LET text == Slice(getLine(d, cursor.line), 0, cursor.ch)
        w == RunLength(text, 0, WhitespaceChars)
        q == w + Len(CalloutOpener)
    IN  IF /\ StartsAt(text, w, CalloutOpener)
           /\ \A i \in (q + 1)..Len(text) : text[i] \in WordChars
        THEN [triggered |-> TRUE, query |-> Slice(text, q, Len(text))]
        ELSE NoTrigger

\* suggestions.findIndex((str) => str.startsWith(query)), from 0, or -1
findIndex(suggestions, query) ==
    LET hits == {i \in 1..Len(suggestions) : startsWith(suggestions[i], query)}
    IN  IF hits = {} THEN -1
        ELSE (CHOOSE i \in hits : \A j \in hits : i <= j) - 1

\* getSuggestions that looks for the candidate equal to the query
getSuggestions_exactMatch(suggestions, query) ==
    LET hits == {i \in 1..Len(suggestions) : suggestions[i] = query}
        at == CHOOSE i \in hits : \A j \in hits : i <= j
    IN  IF query = <<>> THEN suggestions
        ELSE IF hits = {} THEN suggestions
        ELSE <<suggestions[at]>> \o Slice(suggestions, 0, at - 1)
                \o Slice(suggestions, at, Len(suggestions))

\* BracketSuggest.getSuggestions
getSuggestions(suggestions, query) ==
    LET queriedSuggestionIndex == findIndex(suggestions, query)
    IN  IF query = <<>> THEN suggestions
        ELSE IF queriedSuggestionIndex = -1 THEN suggestions
        ELSE <<suggestions[queriedSuggestionIndex + 1]>>
                \o Slice(suggestions, 0, queriedSuggestionIndex)
                \o Slice(suggestions, queriedSuggestionIndex + 1,
                         Len(suggestions))

(***************************************************************************)
(* Specification SpecSuggest: the suggestions for a callout being typed.   *)
(***************************************************************************)
CandidateNames ==
    {<<"a">>, <<"b">>, <<"a", "b">>, <<"a", "b", "c">>, <<"b", "1">>}

\* the names joined by a comma and a space
RECURSIVE joined(_)
joined(names) ==
    IF Len(names) = 1 THEN names[1]
    ELSE names[1] \o <<",", " ">> \o joined(Tail(names))

CalloutSettings ==
    {joined(names) :
        names \in UNION {SeqsOfLength(CandidateNames, n) : n \in 1..MaxCandidates}}

TypedQueries == {<<>>, <<"a">>, <<"a", "b">>, <<"b">>, <<"c">>, <<"a", " ">>}

CalloutDocs ==
    {<<w \o CalloutOpener \o q>> : w \in {<<>>, <<" ">>}, q \in TypedQueries}

WithCallouts(opts, csv) ==
    [k \in DOMAIN opts \cup {"calloutSuggestions"} |->
        IF k = "calloutSuggestions" THEN csv ELSE opts[k]]

InitSuggest ==
    /\ doc \in CalloutDocs
    /\ selections \in Carets(doc)
    /\ settings \in {WithCallouts(DEFAULT_SETTINGS, csv) : csv \in CalloutSettings}
    /\ host = PlainHost
    /\ typed = 0
    /\ log = NoLog

\* the host asks onTrigger at the cursor and, when it gives a query,
\* getSuggestions
CallGetSuggestions ==
    LET suggestions == calloutCandidates(settings.calloutSuggestions)
        context == onTrigger(doc, getCursor(selections))
    IN  /\ log.op = "none"
        /\ log' = IF context.triggered
                  THEN [NoLog EXCEPT
                          !.op = "getSuggestions",
                          !.before = doc,
                          !.input = <<suggestions, context.query>>,
                          !.ret = getSuggestions(suggestions, context.query)]
                  ELSE [NoLog EXCEPT !.op = "onTrigger", !.before = doc]
        /\ UNCHANGED <<doc, selections, settings, host, typed>>

NextSuggest == CallGetSuggestions

SpecSuggest == InitSuggest /\ [][NextSuggest]_vars

SuggestionsCalled == log.op = "getSuggestions"

Candidates == log.input[1]

Query == log.input[2]

\* how many times x is in the list
Count(list, x) == Cardinality({i \in 1..Len(list) : list[i] = x})

IsPermutation(a, b) ==
    /\ Len(a) = Len(b)
    /\ \A i \in 1..Len(a) : Count(a, a[i]) = Count(b, a[i])

\* list without its element number i
Without(list, i) ==
    [k \in 1..(Len(list) - 1) |-> IF k < i THEN list[k] ELSE list[k + 1]]

\* C27 as claimed: getSuggestions returns a permutation of the configured
\* candidate list; for an empty query or a query matching no candidate the
\* list is returned in its configured order, and when the typed query
\* equals a candidate, that candidate is first and the others keep their
\* relative order.
C27_Original ==
    SuggestionsCalled =>
        /\ IsPermutation(log.ret, Candidates)
        /\ (Query = <<>> \/ \A i \in 1..Len(Candidates) :
                                ~startsWith(Candidates[i], Query)) =>
              log.ret = Candidates
        /\ (Query # <<>> /\ \E i \in 1..Len(Candidates) : Candidates[i] = Query) =>
              /\ log.ret[1] = Query
              /\ \E i \in 1..Len(Candidates) :
                    Candidates[i] = Query /\ Tail(log.ret) = Without(Candidates, i)

\* C27 as amended: getSuggestions returns a permutation of the configured
\* candidate list; for an empty query or a query that no candidate starts
\* with the list is returned in its configured order; otherwise the first
\* candidate, in configured order, that starts with the query is first and
\* the others keep their relative order, so that a candidate equal to the
\* query is first when no candidate before it starts with the query.
C27_PrefixPromoted ==
    SuggestionsCalled =>
        /\ IsPermutation(log.ret, Candidates)
        /\ (Query = <<>> \/ \A i \in 1..Len(Candidates) :
                                ~startsWith(Candidates[i], Query)) =>
              log.ret = Candidates
        /\ \A i \in 1..Len(Candidates) :
              (/\ Query # <<>>
               /\ startsWith(Candidates[i], Query)
               /\ \A j \in 1..(i - 1) : ~startsWith(Candidates[j], Query)) =>
                    /\ log.ret[1] = Candidates[i]
                    /\ Tail(log.ret) = Without(Candidates, i)

\* the query "ab" moved the candidate "abc" before "b" and "ab"
C27_Witness ==
    /\ SuggestionsCalled
    /\ Query = <<"a", "b">>
    /\ Candidates = <<<<"b">>, <<"a", "b", "c">>, <<"a", "b">>>>
    /\ log.ret = <<<<"a", "b", "c">>, <<"b">>, <<"a", "b">>>>

(***************************************************************************)
(* The shape of what selectLine returns.                                   *)
(***************************************************************************)
\* C28: every selection returned by selectLine is forward and in bounds:
\* its lines are the smaller and the larger of the two lines of the input,
\* whatever the direction of the input, its anchor is not after its head,
\* the anchor's column lies between 0 and the length of its line, and the
\* head's column is the length of its line; a line that is only a prefix
\* yields an empty selection at the end of the line.
C28_ForwardInBounds ==
    log.op = "selectLine" =>
        LET given == log.input[1]
            ret == log.ret[1]
        IN  /\ PosLE(ret.anchor, ret.head)
            /\ ret.anchor.line = Min(given.anchor.line, given.head.line)
            /\ ret.head.line = Max(given.anchor.line, given.head.line)
            /\ 0 <= ret.anchor.ch
            /\ ret.anchor.ch <= Len(getLine(log.before, ret.anchor.line))
            /\ ret.head.ch = Len(getLine(log.before, ret.head.line))
            /\ (/\ log.avoid /\ given.anchor.line = given.head.line
                /\ \E r \in PrefixReadings(CalledLine) :
                      r[1] + r[2] + 1 = Len(CalledLine)) =>
                   /\ ret.anchor = ret.head
                   /\ ret.head.ch = Len(CalledLine)

\* a backward selection over two lines came back forward, from the start
\* of the upper line to the end of the lower line
C28_Witness ==
    /\ log.op = "selectLine"
    /\ log.input[1].anchor.line > log.input[1].head.line
    /\ log.input[1].anchor.ch < log.input[1].head.ch
    /\ log.ret[1].anchor = Pos(log.input[1].head.line, 0)
    /\ log.ret[1].head.line = log.input[1].anchor.line
    /\ log.ret[1].head.ch > 0

\* C29: whenever trySelectCodeBlock returns a selection, no line of the
\* returned range contains a triple backquote: the range holds no fence
\* line and no text outside the code block of the cursor.
C29_NoFenceInside ==
    (CodeBlockCalled /\ log.ret # <<>>) =>
        \A n \in From(log.ret[1]).line..To(log.ret[1]).line :
            ~contains(getLine(log.before, n), FENCE)

\* runSelectBlock ran twice in a row with selectAllIfUnchanged off, outside
\* a table and with an editor
ExpandedTwice ==
    /\ SecondActivation
    /\ ~settings.selectAllIfUnchanged
    /\ host.anchorNode # "table" /\ host.editor

====
